---- MODULE Spec2Model ----
(***************************************************************************)
(* Model of the isce-proc stack driver: the stage executor run_stack and   *)
(* the stage driver run_sh_file, the process-count scaling of run_stack    *)
(* and prep_stack, and the template resolver check_template_auto_value /   *)
(* fill_and_translate_template_auto_value.                                 *)
(*                                                                         *)
(* Python strings are sequences of character codes (Unicode code points),  *)
(* so that sorted(), glob patterns, "in" and str.lower() are computed on   *)
(* the characters as Python computes them.                                 *)
(***************************************************************************)
EXTENDS Integers, Sequences, FiniteSets, TLC

VARIABLES
    impl,        \* which run_stack runs: "utils" (utils.py) or "script" (run_isce_stack.py)
    projPath,    \* absolute path of the project directory (characters)
    cwd,         \* process working directory: "proj" or "run_files"
    isdir,       \* [configs, run_files] -> BOOLEAN : os.path.isdir in the project directory
    files,       \* names of the files in <proj>/run_files
    args,        \* the caller's inputs, never written: startStep, endStep, files at entry
    iDict,       \* the configuration mapping run_stack reads and writes
    ompThreads,  \* os.environ OMP_NUM_THREADS: <<>> when unset, <<t>> when set
    run_files,   \* the stage catalog: sorted list of full paths
    step_ind,    \* loop variable of run_stack
    dir_orig,    \* working directory saved by run_stack
    invoked,     \* the driver invocations so far, in order
    pc,          \* position in run_stack: "enter", "loop", "done"
    outcome,     \* how run_stack ended: "none", "returned" or the exception raised
    errFile,     \* the script named by the RuntimeError of run_sh_file, <<>> if none
    errMsg,      \* the message of that RuntimeError, <<>> if none
    scIn,        \* inputs of the process-count scaling: run_file, numProcess, omp,
                 \*   processor, numProcess4topo
    scDone,      \* which of the two computations are done: subset of {"run", "plan"}
    scRun,       \* num_proc of run_stack for scIn.run_file: <<c>>, <<>> before
    scPlan,      \* --num_proc4topo of prep_stack: <<c>>, <<>> when not passed
    rImpl,       \* which resolver runs: "utils" (check_template_auto_value) or
                 \*   "script" (fill_and_translate_template_auto_value)
    rRaw,        \* tempDict as passed in
    rAuto,       \* autoDict
    rCoerced,    \* tempDict after step 3 (special values translated)
    rOut,        \* tempDict at the end of the resolver
    rOutcome,    \* "none" before the call, "returned", "KeyError" or "TypeError"
    demImpl,     \* which DEM preparation runs: "utils" (prep_dem) or "script"
                 \*   (prepare_dem)
    demDict,     \* iDict of the DEM preparation
    demArgs,     \* iDict and the files on disk at the first call, never written
    demFs,       \* the files on disk
    demDirs,     \* the directories on disk
    demCwd,      \* the working directory: "proj", "DEM" or "ext"
    demDirOrig,  \* dir_orig of the DEM preparation
    dem_bbox,    \* the box S, N, W, E before the command is composed, <<>> before
    cmd,         \* the command line of the DEM program, <<>> before it is composed
    demGen,      \* number of runs of the DEM program during the current call
    demCall,     \* number of calls of the DEM preparation so far
    demFirst,    \* iDict['demFile'] returned by the first call, <<>> before
    demPc,       \* position: "enter", "run" (the command is composed), "done"
    demOutcome,  \* "none", "returned" or the exception raised
    demErr,      \* the message of the RuntimeError of the DEM preparation
    argv,        \* the arguments of the command line of run_isce_stack.py
    template,    \* the content of the template file
    sensorName,  \* the sensor project_name2sensor_name gives
    inps,        \* the namespace cmd_line_parse returns: <<>> before, <<inps>> after
    mDict,       \* iDict of main: <<>> before read_inps2dict returns, <<iDict>> after
    calls,       \* the functions main has called so far, in order
    printed,     \* the reset block has been printed
    mainPc,      \* position in main: "parse", "read", "dispatch", "raw", "plan",
                 \*   "run", "done"
    mainErr,     \* "none", the exception raised or the function that raised
    exitCode,    \* exit status of the program: <<>> while running, <<code>> after
    shDict,      \* iDict of copy_reference_shelve
    slcDates,    \* the folders of SLC/
    slcComplete, \* the folders of SLC/ that hold the three shelve files
    shelveIsDir, \* the referenceShelve directory exists
    shEntryIsDir,\* it existed at the call
    shCopied,    \* the files copied into referenceShelve, in order
    shPc,        \* position in copy_reference_shelve: "enter", "done"
    shOutcome    \* "none", "returned" or the exception raised

stackVars == <<impl, projPath, cwd, isdir, files, args, iDict, ompThreads,
               run_files, step_ind, dir_orig, invoked, pc, outcome, errFile,
               errMsg>>
scaleVars == <<scIn, scDone, scRun, scPlan>>
resolveVars == <<rImpl, rRaw, rAuto, rCoerced, rOut, rOutcome>>
demVars == <<demImpl, demDict, demArgs, demFs, demDirs, demCwd, demDirOrig, dem_bbox,
             cmd, demGen, demCall, demFirst, demPc, demOutcome, demErr>>
mainVars == <<argv, template, sensorName, inps, mDict, calls, printed, mainPc,
              mainErr, exitCode>>
shelveVars == <<shDict, slcDates, slcComplete, shelveIsDir, shEntryIsDir, shCopied,
                shPc, shOutcome>>
vars == <<stackVars, scaleVars, resolveVars, demVars, mainVars, shelveVars>>

-----------------------------------------------------------------------------
(* Bounds of the model *)

\* at most this many files in run_files at entry
MaxFiles == 3
\* --start / --end values range over -MaxStep..MaxStep
MaxStep == 3
\* numProcess ranges over 1..MaxBudget in the run_stack specification
MaxBudget == 2
\* OMP_NUM_THREADS is unset or 1..MaxOmp in the run_stack specification
MaxOmp == 2
\* a stage script has 0..MaxLines lines
MaxLines == 2
\* numProcess ranges over 1..MaxProc in the scaling specification
MaxProc == 9
\* OMP_NUM_THREADS is unset or 1..MaxThreads in the scaling specification
MaxThreads == 4
\* largest demBuffer given in a configuration
MaxBuffer == 1
\* largest number of files on disk at the first call of the DEM preparation
MaxDemFiles == 2
\* largest number of calls of the DEM preparation
MaxCalls == 2
\* largest magnitude of a --start or --end value
MaxMainStep == 1
\* largest number of folders under SLC/
MaxDates == 2

-----------------------------------------------------------------------------
(* Characters and strings *)

Min(a, b) == IF a <= b THEN a ELSE b

\* "."  "/"  "_"
DotStr == <<46>>
SlashStr == <<47>>
UnderStr == <<95>>

\* '0' <= c <= '9', the glob class [0-9]
IsDigit(c) == c >= 48 /\ c <= 57

\* sub in s  (Python substring test)
Contains(s, sub) ==
    \E i \in 1..(Len(s) - Len(sub) + 1) : SubSeq(s, i, i + Len(sub) - 1) = sub

StartsWith(s, p) == Len(s) >= Len(p) /\ SubSeq(s, 1, Len(p)) = p
EndsWith(s, p) == Len(s) >= Len(p) /\ SubSeq(s, Len(s) - Len(p) + 1, Len(s)) = p

\* s.replace(old, new) of Python: every occurrence, left to right
RECURSIVE StrReplace(_, _, _)
StrReplace(s, old, new) ==
    IF Len(s) < Len(old) \/ old = <<>> THEN s
    ELSE IF SubSeq(s, 1, Len(old)) = old
         THEN new \o StrReplace(SubSeq(s, Len(old) + 1, Len(s)), old, new)
         ELSE <<s[1]>> \o StrReplace(SubSeq(s, 2, Len(s)), old, new)

\* s < t for Python strings: code point order, a proper prefix is smaller
StrLess(s, t) ==
    \E i \in 1..(Min(Len(s), Len(t)) + 1) :
        /\ \A j \in 1..(i - 1) : s[j] = t[j]
        /\ IF i > Len(s) THEN i <= Len(t)
           ELSE i <= Len(t) /\ s[i] < t[i]

RECURSIVE SetToSeq(_)
SetToSeq(S) ==
    IF S = {} THEN <<>>
    ELSE LET x == CHOOSE y \in S : TRUE IN <<x>> \o SetToSeq(S \ {x})

\* sorted(list) of distinct strings
Sorted(S) == SortSeq(SetToSeq(S), StrLess)

SeqRange(s) == {s[i] : i \in 1..Len(s)}

\* os.path.basename
Basename(path) ==
    LET slashes == {i \in 1..Len(path) : path[i] = 47}
    IN  IF slashes = {} THEN path
        ELSE SubSeq(path, (CHOOSE i \in slashes : \A j \in slashes : j <= i) + 1, Len(path))

-----------------------------------------------------------------------------
(* Program constants *)

\* PARALLEL_STEPS = ['topo', 'geo2rdr', 'resamp']
PARALLEL_STEPS ==
    { <<116,111,112,111>>, <<103,101,111,50,114,100,114>>, <<114,101,115,97,109,112>> }

\* "run_"  ".job"  "run_files"
RunStr == <<114,117,110,95>>
JobExt == <<46,106,111,98>>
RunFileDirName == <<114,117,110,95,102,105,108,101,115>>

-----------------------------------------------------------------------------
(* Inputs *)

\* run_<digits>_<suffix><ext>
FileName(digits, suffix, ext) == RunStr \o digits \o UnderStr \o suffix \o ext

\* the files a run_files directory is drawn from:
\*   run_01_a  run_02_topo  run_2_b  run_10_c  run_01_a.job  run_03_b.o
FileUniverse ==
    { FileName(<<48,49>>, <<97>>, <<>>),
      FileName(<<48,50>>, <<116,111,112,111>>, <<>>),
      FileName(<<50>>, <<98>>, <<>>),
      FileName(<<49,48>>, <<99>>, <<>>),
      FileName(<<48,49>>, <<97>>, JobExt),
      FileName(<<48,51>>, <<98>>, <<46,111>>) }

\* project directories:  /p   /topo
ProjPaths == { <<47,112>>, <<47,116,111,112,111>> }

\* an optional int: <<>> is None, <<k>> is k
OptSteps == { <<>> } \cup { <<k>> : k \in (0 - MaxStep)..MaxStep }

\* Python truth value of an optional int ("not x" is its negation)
Truthy(x) == x # <<>> /\ x[1] # 0

-----------------------------------------------------------------------------
(* glob patterns of run_stack *)

\* os.path.join(run_file_dir, name)
RunFileDir == projPath \o SlashStr \o RunFileDirName
FullPath(name) == RunFileDir \o SlashStr \o name

\* run_*_*.job
MatchJob(name) ==
    /\ StartsWith(name, RunStr)
    /\ EndsWith(name, JobExt)
    /\ Len(name) >= Len(RunStr) + 1 + Len(JobExt)
    /\ Contains(SubSeq(name, Len(RunStr) + 1, Len(name) - Len(JobExt)), UnderStr)

\* run_[0-9]_*
MatchOneDigit(name) ==
    /\ Len(name) >= 6
    /\ StartsWith(name, RunStr)
    /\ IsDigit(name[5])
    /\ name[6] = 95

\* run_[0-9][0-9]_*
MatchTwoDigit(name) ==
    /\ Len(name) >= 7
    /\ StartsWith(name, RunStr)
    /\ IsDigit(name[5])
    /\ IsDigit(name[6])
    /\ name[7] = 95

\* the glob.glob calls that collect the run files; the two patterns of the
\* script never match the same name (the sixth character differs), so the
\* concatenation of the two lists has no duplicates
GrabRunFiles(which, names) ==
    IF which = "utils"
    THEN {n \in names : MatchTwoDigit(n)}
    ELSE {n \in names : MatchOneDigit(n)} \cup {n \in names : MatchTwoDigit(n)}

\* sorted([i for i in run_files if '.' not in os.path.basename(i)])
CleanSorted(paths) == Sorted({p \in paths : ~Contains(Basename(p), DotStr)})

\* the stage catalog of run_stack over the directory content names
Catalog(which, names) == CleanSorted({FullPath(n) : n \in GrabRunFiles(which, names)})


-----------------------------------------------------------------------------
(* run_stack: process count of one stage *)

\* int(os.environ.get('OMP_NUM_THREADS', 1))
NumThread(omp) == IF omp = <<>> THEN 1 ELSE omp[1]

\* np.ceil(n / t).astype(int)  for n >= 0, t >= 1
CeilDiv(n, t) == IF n % t = 0 THEN n \div t ELSE (n \div t) + 1

\* np.floor(n / t).astype(int)  for n >= 0, t >= 1
FloorDiv(n, t) == n \div t

\* any(i in run_file for i in PARALLEL_STEPS), run_file being the full path
IsParallelStep(run_file) == \E k \in PARALLEL_STEPS : Contains(run_file, k)

\* the count of run_stack rounded down
RunNumProc_Floor(run_file, numProcess, omp) ==
    IF IsParallelStep(run_file)
    THEN FloorDiv(numProcess, NumThread(omp))
    ELSE numProcess

\* the num_proc run_stack passes to run_sh_file for run_file
RunNumProc(run_file, numProcess, omp) ==
    IF IsParallelStep(run_file)
    THEN CeilDiv(numProcess, NumThread(omp))
    ELSE numProcess

\* run_sh_file: num_proc = min(int(num_proc), num_line)
DriverNumProc(num_proc, num_line) == Min(num_proc, num_line)

-----------------------------------------------------------------------------
(* run_stack *)

\* the loop "for key, val in zip(['startStep', 'endStep'], [1, num_step])"
ResolveStep(val, default) == IF ~Truthy(val) THEN <<default>> ELSE val

\* list[i] of Python: defined for -len <= i < len, negative i counts from the end
PyIndexOk(list, i) == i >= 0 - Len(list) /\ i < Len(list)
PyIndexPos(list, i) == IF i >= 0 THEN i + 1 ELSE Len(list) + i + 1

\* "Error in "
ErrorInStr == <<69,114,114,111,114,32,105,110,32>>

\* the message of the RuntimeError of run_sh_file: "Error in {}".format(sh_file)
RunShFileError(sh_file) == ErrorInStr \o sh_file

\* exit statuses of the stage driver
ExitCodes == {0, 1}

\* the directory check placed after the chdir and the removal of the job files
RunStackNoDir_AfterCleanup ==
    /\ UNCHANGED <<scaleVars, resolveVars, demVars, mainVars, shelveVars>>
    /\ pc = "enter"
    /\ ~(isdir["configs"] /\ isdir["run_files"])
    /\ cwd' = (IF isdir["run_files"] THEN "run_files" ELSE cwd)
    /\ files' = {n \in files : ~MatchJob(n)}
    /\ pc' = "done"
    /\ outcome' = "NotADirectoryError"
    /\ UNCHANGED <<impl, projPath, isdir, args, iDict, ompThreads,
                   run_files, step_ind, dir_orig, invoked, errFile, errMsg>>

\* the check of the configs and run_files directories fails
RunStackNoDir ==
    /\ UNCHANGED <<scaleVars, resolveVars, demVars, mainVars, shelveVars>>
    /\ pc = "enter"
    /\ ~(isdir["configs"] /\ isdir["run_files"])
    /\ pc' = "done"
    /\ outcome' = "NotADirectoryError"
    /\ UNCHANGED <<impl, projPath, cwd, isdir, files, args, iDict, ompThreads,
                   run_files, step_ind, dir_orig, invoked, errFile, errMsg>>

\* entry of run_stack up to the loop: chdir, removal of the job files, the
\* catalog, the start and end steps
RunStackEnter ==
    /\ UNCHANGED <<scaleVars, resolveVars, demVars, mainVars, shelveVars>>
    /\ pc = "enter"
    /\ isdir["configs"] /\ isdir["run_files"]
    /\ dir_orig' = cwd
    /\ cwd' = "run_files"
    /\ files' = {n \in files : ~MatchJob(n)}
    /\ run_files' = Catalog(impl, files')
    /\ iDict' = [iDict EXCEPT !.startStep = ResolveStep(@, 1),
                              !.endStep = ResolveStep(@, Len(run_files'))]
    /\ step_ind' = iDict'.startStep[1] - 1
    /\ pc' = "loop"
    /\ UNCHANGED <<impl, projPath, isdir, args, ompThreads, invoked, outcome, errFile,
                   errMsg>>

InLoop == pc = "loop" /\ step_ind <= iDict.endStep[1] - 1

\* run_files[step_ind] is out of range
RunStageIndexError ==
    /\ UNCHANGED <<scaleVars, resolveVars, demVars, mainVars, shelveVars>>
    /\ InLoop
    /\ ~PyIndexOk(run_files, step_ind)
    /\ pc' = "done"
    /\ outcome' = "IndexError"
    /\ UNCHANGED <<impl, projPath, cwd, isdir, files, args, iDict, ompThreads,
                   run_files, step_ind, dir_orig, invoked, errFile, errMsg>>

\* run_sh_file on run_files[step_ind], the script having no lines:
\* get_file_line_number returns i + 1 with the loop variable i unbound
RunStageEmptyScript ==
    /\ UNCHANGED <<scaleVars, resolveVars, demVars, mainVars, shelveVars>>
    /\ InLoop
    /\ PyIndexOk(run_files, step_ind)
    /\ pc' = "done"
    /\ outcome' = "UnboundLocalError"
    /\ UNCHANGED <<impl, projPath, cwd, isdir, files, args, iDict, ompThreads,
                   run_files, step_ind, dir_orig, invoked, errFile, errMsg>>

\* one iteration of the loop: run_sh_file on run_files[step_ind], the script
\* having num_line >= 1 lines and the driver exiting with status
RunStage ==
    /\ UNCHANGED <<scaleVars, resolveVars, demVars, mainVars, shelveVars>>
    /\ InLoop
    /\ PyIndexOk(run_files, step_ind)
    /\ \E num_line \in 1..MaxLines, status \in ExitCodes :
         LET pos == PyIndexPos(run_files, step_ind)
             run_file == run_files[pos]
             num_proc == RunNumProc(run_file, iDict.numProcess, ompThreads)
         IN  /\ invoked' = Append(invoked,
                    [run_file |-> run_file, pos |-> pos, num_proc |-> num_proc,
                     num_line |-> num_line, p |-> DriverNumProc(num_proc, num_line),
                     status |-> status])
             /\ IF status # 0
                THEN /\ pc' = "done"
                     /\ outcome' = "RuntimeError"
                     /\ errFile' = run_file
                     /\ errMsg' = RunShFileError(run_file)
                     /\ UNCHANGED step_ind
                ELSE /\ step_ind' = step_ind + 1
                     /\ UNCHANGED <<pc, outcome, errFile, errMsg>>
    /\ UNCHANGED <<impl, projPath, cwd, isdir, files, args, iDict, ompThreads,
                   run_files, dir_orig>>

\* the loop is over: back to the original directory
RunStackReturn ==
    /\ UNCHANGED <<scaleVars, resolveVars, demVars, mainVars, shelveVars>>
    /\ pc = "loop"
    /\ ~(step_ind <= iDict.endStep[1] - 1)
    /\ cwd' = dir_orig
    /\ pc' = "done"
    /\ outcome' = "returned"
    /\ UNCHANGED <<impl, projPath, isdir, files, args, iDict, ompThreads,
                   run_files, step_ind, dir_orig, invoked, errFile, errMsg>>

\* the state at the call of run_stack
StackEntry(impls, projs, steps, budgets, omps) ==
    /\ impl \in impls
    /\ projPath \in projs
    /\ cwd = "proj"
    /\ isdir \in [{"configs", "run_files"} -> BOOLEAN]
    /\ files \in {S \in SUBSET FileUniverse :
                    Cardinality(S) <= MaxFiles /\ (~isdir["run_files"] => S = {})}
    /\ \E s \in steps, e \in steps, n \in budgets :
         /\ args = [startStep |-> s, endStep |-> e, files |-> files]
         /\ iDict = [startStep |-> s, endStep |-> e, numProcess |-> n]
    /\ ompThreads \in omps
    /\ run_files = <<>>
    /\ step_ind = 0
    /\ dir_orig = "proj"
    /\ invoked = <<>>
    /\ pc = "enter"
    /\ outcome = "none"
    /\ errFile = <<>>
    /\ errMsg = <<>>

\* run_stack is not running
StackIdle ==
    /\ impl = "utils"
    /\ projPath = <<47,112>>
    /\ cwd = "proj"
    /\ isdir = [d \in {"configs", "run_files"} |-> FALSE]
    /\ files = {}
    /\ args = [startStep |-> <<>>, endStep |-> <<>>, files |-> {}]
    /\ iDict = [startStep |-> <<>>, endStep |-> <<>>, numProcess |-> 1]
    /\ ompThreads = <<>>
    /\ run_files = <<>>
    /\ step_ind = 0
    /\ dir_orig = "proj"
    /\ invoked = <<>>
    /\ pc = "idle"
    /\ outcome = "none"
    /\ errFile = <<>>
    /\ errMsg = <<>>

NextStack ==
    \/ RunStackNoDir
    \/ RunStackEnter
    \/ RunStageIndexError
    \/ RunStageEmptyScript
    \/ RunStage
    \/ RunStackReturn

-----------------------------------------------------------------------------
(* Process-count scaling: run_stack at run time, prep_stack at plan time *)

\* prep_stack: the value of --num_proc4topo, <<>> when the option is not passed
PlanNumProc4topo(processor, numProcess, numProcess4topo, omp) ==
    IF processor = "topsStack" /\ numProcess # 0
    THEN IF Truthy(numProcess4topo)
         THEN numProcess4topo
         ELSE <<FloorDiv(numProcess, NumThread(omp))>>
    ELSE <<>>

\* run_stack computes num_proc for scIn.run_file
RunStackNumProc ==
    /\ "run" \notin scDone
    /\ scIn.run_file # <<>>
    /\ scRun' = <<RunNumProc(scIn.run_file, scIn.numProcess, scIn.omp)>>
    /\ scDone' = scDone \cup {"run"}
    /\ UNCHANGED <<scIn, scPlan, stackVars, resolveVars, demVars, mainVars, shelveVars>>

\* prep_stack composes --num_proc4topo
PrepStackNumProc ==
    /\ "plan" \notin scDone
    /\ scIn.run_file # <<>>
    /\ scPlan' = PlanNumProc4topo(scIn.processor, scIn.numProcess,
                                  scIn.numProcess4topo, scIn.omp)
    /\ scDone' = scDone \cup {"plan"}
    /\ UNCHANGED <<scIn, scRun, stackVars, resolveVars, demVars, mainVars, shelveVars>>

\* stage scripts the scaling is computed for:  run_01_a  run_02_topo
ScaleFiles ==
    { FileName(<<48,49>>, <<97>>, <<>>), FileName(<<48,50>>, <<116,111,112,111>>, <<>>) }

ScaleEntry ==
    /\ \E pp \in ProjPaths, f \in ScaleFiles, n \in 1..MaxProc,
          o \in {<<>>} \cup {<<t>> : t \in 1..MaxThreads},
          pr \in {"topsStack", "stripmapStack"}, n4 \in {<<>>, <<MaxProc>>} :
         scIn = [run_file |-> pp \o SlashStr \o RunFileDirName \o SlashStr \o f,
                 numProcess |-> n, omp |-> o, processor |-> pr, numProcess4topo |-> n4]
    /\ scDone = {}
    /\ scRun = <<>>
    /\ scPlan = <<>>

ScaleIdle ==
    /\ scIn = [run_file |-> <<>>, numProcess |-> 1, omp |-> <<>>,
               processor |-> "topsStack", numProcess4topo |-> <<>>]
    /\ scDone = {}
    /\ scRun = <<>>
    /\ scPlan = <<>>

NextScale ==
    \/ RunStackNumProc
    \/ PrepStackNumProc

-----------------------------------------------------------------------------
(* The template resolver: check_template_auto_value (utils.py) and         *)
(* fill_and_translate_template_auto_value (run_isce_stack.py)              *)

\* Python values: str, bool, None, int
StrV(s) == [kind |-> "str", s |-> s, b |-> FALSE, i |-> 0]
BoolV(b) == [kind |-> "bool", s |-> <<>>, b |-> b, i |-> 0]
NoneV == [kind |-> "none", s |-> <<>>, b |-> FALSE, i |-> 0]
IntV(i) == [kind |-> "int", s |-> <<>>, b |-> FALSE, i |-> i]

\* "auto" "yes" "true" "no" "false" "none"
AutoStr == <<97,117,116,111>>
YesStr == <<121,101,115>>
TrueStr == <<116,114,117,101>>
NoStr == <<110,111>>
FalseStr == <<102,97,108,115,101>>
NoneStr == <<110,111,110,101>>
\* "*"
StarStr == <<42>>

RECURSIVE Decimal(_)
Decimal(n) == IF n < 10 THEN <<48 + n>> ELSE Decimal(n \div 10) \o <<48 + (n % 10)>>

\* str(value)
PyStr(v) ==
    CASE v.kind = "str" -> v.s
      [] v.kind = "bool" -> IF v.b THEN <<84,114,117,101>> ELSE <<70,97,108,115,101>>
      [] v.kind = "none" -> <<78,111,110,101>>
      [] v.kind = "int" -> IF v.i < 0 THEN <<45>> \o Decimal(0 - v.i) ELSE Decimal(v.i)

\* str.lower() on ASCII
Lower(s) == [j \in 1..Len(s) |-> IF s[j] >= 65 /\ s[j] <= 90 THEN s[j] + 32 ELSE s[j]]

\* truth value of a Python value
PyTruthy(v) ==
    CASE v.kind = "str" -> v.s # <<>>
      [] v.kind = "bool" -> v.b
      [] v.kind = "none" -> FALSE
      [] v.kind = "int" -> v.i # 0

\* step 1: pop the keys whose value is 'auto'
RemoveAuto(t) == [k \in {x \in DOMAIN t : t[x] # StrV(AutoStr)} |-> t[k]]

\* step 2: fill the keys of autoDict that are missing
FillMissing(t, d) ==
    [k \in DOMAIN t \cup DOMAIN d |-> IF k \in DOMAIN t THEN t[k] ELSE d[k]]

\* the table with the entries of false and none exchanged
SpecialValues_Swapped(low) ==
    CASE low = YesStr -> BoolV(TRUE)
      [] low = TrueStr -> BoolV(TRUE)
      [] low = NoStr -> BoolV(FALSE)
      [] low = FalseStr -> NoneV
      [] low = NoneStr -> BoolV(FALSE)

\* specialValues[low]
SpecialValues(low) ==
    CASE low = YesStr -> BoolV(TRUE)
      [] low = TrueStr -> BoolV(TRUE)
      [] low = NoStr -> BoolV(FALSE)
      [] low = FalseStr -> BoolV(FALSE)
      [] low = NoneStr -> NoneV

\* specialValues.keys()
SpecialKeys == {YesStr, TrueStr, NoStr, FalseStr, NoneStr}

\* step 3 on one value
TranslateValue(v) ==
    LET low == Lower(PyStr(v))
    IN  IF low \in SpecialKeys THEN SpecialValues(low) ELSE v

\* step 3: translate special values
TranslateSpecial(t) == [k \in DOMAIN t |-> TranslateValue(t[k])]

\* steps 1 to 3 with the filling done before the removal of 'auto'
FillAndTranslate_FillFirst(t, d) == TranslateSpecial(RemoveAuto(FillMissing(t, d)))

\* steps 1 to 3
FillAndTranslate(t, d) == TranslateSpecial(FillMissing(RemoveAuto(t), d))

\* the key whose value may hold a wildcard
DemFileKey == "isce.demFile"

\* step 4 ends in: KeyError (tempDict[key] without the key), TypeError
\* ('*' in a true value that is no string), or goes on
WildcardOutcome(t) ==
    IF DemFileKey \notin DOMAIN t THEN "KeyError"
    ELSE IF PyTruthy(t[DemFileKey]) /\ t[DemFileKey].kind # "str" THEN "TypeError"
    ELSE "returned"

\* tempDict[key] and '*' in tempDict[key]
HasWildcard(t) ==
    /\ DemFileKey \in DOMAIN t
    /\ t[DemFileKey].kind = "str"
    /\ Contains(t[DemFileKey].s, StarStr)

\* step 4 with values = glob.glob(tempDict[key])
TranslateWildcard(which, t, values) ==
    IF Len(values) > 0 THEN [t EXCEPT ![DemFileKey] = StrV(values[1])]
    ELSE IF which = "script" THEN [t EXCEPT ![DemFileKey] = NoneV]
    ELSE t

\* what glob.glob may return for the pattern "a*":  []  ["ab"]
GlobResults == { <<>>, << <<97,98>> >> }

\* the resolver on rRaw and rAuto
Resolve ==
    /\ rOutcome = "none"
    /\ rImpl # "idle"
    /\ LET t == FillAndTranslate(rRaw, rAuto)
       IN  /\ rCoerced' = t
           /\ rOutcome' = WildcardOutcome(t)
           /\ IF WildcardOutcome(t) = "returned" /\ HasWildcard(t)
              THEN \E values \in GlobResults : rOut' = TranslateWildcard(rImpl, t, values)
              ELSE rOut' = t
    /\ UNCHANGED <<rImpl, rRaw, rAuto, stackVars, scaleVars, demVars, mainVars, shelveVars>>

\* keys and values the mappings are drawn from
ResolveKeys == {"isce.demFile", "isce.useGPU"}

\* values of a template:  auto  Yes  FALSE  none  a*  x
RawValues ==
    { StrV(AutoStr), StrV(<<89,101,115>>), StrV(<<70,65,76,83,69>>),
      StrV(NoneStr), StrV(<<97,42>>), StrV(<<120>>) }

\* values of a default table:  'x'  'no'  True  False  None  4
AutoValues ==
    { StrV(<<120>>), StrV(NoStr), BoolV(TRUE), BoolV(FALSE), NoneV, IntV(4) }

Mappings(keys, values) == UNION { [D -> values] : D \in SUBSET keys }

ResolveEntry ==
    /\ rImpl \in {"utils", "script"}
    /\ rRaw \in Mappings(ResolveKeys, RawValues)
    /\ rAuto \in Mappings(ResolveKeys, AutoValues)
    /\ rCoerced = <<>>
    /\ rOut = <<>>
    /\ rOutcome = "none"

ResolveIdle ==
    /\ rImpl = "idle"
    /\ rRaw = <<>>
    /\ rAuto = <<>>
    /\ rCoerced = <<>>
    /\ rOut = <<>>
    /\ rOutcome = "none"

NextResolve == Resolve
-----------------------------------------------------------------------------
(* prep_dem of utils.py and prepare_dem of run_isce_stack.py *)

\* A path is a record of its directory and its file name.  The directories
\* are "DEM" (dir_orig/DEM) and "ext" (another directory, of a configured
\* demFile); the working directory is one of these or "proj".  The entries of
\* the two directories are regular files.  Coordinates are floats that are
\* multiples of 0.5, held as their double: 61 is 30.5.
Path(dir, name) == [dir |-> dir, name |-> name]

GsiRaster == <<103,115,105,49,48,109,46,100,101,109,46,119,103,115,56,52>>
SrtmRaster == <<100,101,109,76,97,116,95,78,50,55,46,100,101,109,46,119,103,115,56,52>>
UserRaster == <<109,121,46,100,101,109,46,119,103,115,56,52>>
Wgs84Ext == <<46,119,103,115,56,52>>
XmlExt == <<46,120,109,108>>
VrtExt == <<46,118,114,116>>
SrtmStr == <<115,114,116,109>>
GsiSource == <<103,115,105,95,100,101,104,109>>
DemSources == {GsiSource, <<115,114,116,109,49>>, <<110,97,115,97,100,101,109>>}
DemUrl == <<104,116,116,112,58,47,47,117>>
DemFillValue == <<45,51,50,55,54,56>>

\* iDict.get('demBuffer', 3) and the literal 3 of prepare_dem
DefaultBuffer == 3

\* index of the first occurrence of sub in s, 0 if none
IndexOf(s, sub) ==
    LET I == {i \in 1..(Len(s) - Len(sub) + 1) : SubSeq(s, i, i + Len(sub) - 1) = sub}
    IN  IF I = {} THEN 0 ELSE CHOOSE i \in I : \A j \in I : i <= j

\* s.split(sep)[1]: <<>> stands for the IndexError, <<t>> for the text t
\* between the first and the second occurrence of sep
SplitSecond(s, sep) ==
    LET i == IndexOf(s, sep)
        rest == SubSeq(s, i + Len(sep), Len(s))
        j == IndexOf(rest, sep)
    IN  IF i = 0 THEN <<>>
        ELSE IF j = 0 THEN <<rest>> ELSE <<SubSeq(rest, 1, j - 1)>>

\* fnmatch of glob for a pattern with at most one '*'; a leading '*' does not
\* match a leading dot
GlobMatch(pattern, name) ==
    LET i == IndexOf(pattern, StarStr)
        pre == SubSeq(pattern, 1, i - 1)
        suf == SubSeq(pattern, i + 1, Len(pattern))
    IN  IF i = 0 THEN name = pattern
        ELSE /\ Len(name) >= Len(pre) + Len(suf)
             /\ StartsWith(name, pre)
             /\ EndsWith(name, suf)
             /\ (pre = <<>> => name # <<>> /\ name[1] # 46)

\* glob.glob(os.path.join(dir, pattern)) as a set; the order of the list is
\* the order of the directory listing
Glob(fs, dir, pattern) == {f \in fs : f.dir = dir /\ GlobMatch(pattern, f.name)}

\* str(int) and str(float) of Python, the float given as its double
IntStr(n) == IF n < 0 THEN <<45>> \o Decimal(0 - n) ELSE Decimal(n)
FloatStr(h) ==
    LET a == IF h < 0 THEN 0 - h ELSE h
    IN  (IF h < 0 THEN <<45>> ELSE <<>>) \o Decimal(a \div 2) \o DotStr
            \o (IF a % 2 = 0 THEN <<48>> ELSE <<53>>)

\* int(np.floor(x)) and int(np.ceil(x)), x given as its double
FloorInt(h) == h \div 2
CeilInt(h) == 0 - ((0 - h) \div 2)

\* ' '.join(list of strings)
RECURSIVE JoinSp(_)
JoinSp(l) ==
    IF l = <<>> THEN <<>>
    ELSE IF Len(l) = 1 THEN l[1] ELSE l[1] \o <<32>> \o JoinSp(Tail(l))

\* the DEM directory
DemDir(which, d) ==
    IF which = "utils" /\ d.demFile # <<>> THEN d.demFile[1].dir ELSE "DEM"

\* iDict['demFile'] and os.path.isfile(iDict['demFile']), the check dropped
InputDemExists_NoIsfile(d, fs) == d.demFile # <<>>

\* iDict['demFile'] and os.path.isfile(iDict['demFile'])
InputDemExists(d, fs) == d.demFile # <<>> /\ d.demFile[1] \in fs

\* glob of '*.dem.wgs84' in the DEM directory
ExistingDems(which, d, fs) == Glob(fs, DemDir(which, d), StarStr \o <<46,100,101,109,46,119,103,115,56,52>>)

\* the bounding box with the buffer on each side
BufferedBox(bbox, buff) ==
    <<bbox[1] - 2 * buff, bbox[2] + 2 * buff, bbox[3] - 2 * buff, bbox[4] + 2 * buff>>

\* buff of prep_dem; prepare_dem subtracts and adds the literal 3
DemBuff(which, d) ==
    IF which = "utils"
    THEN (IF d.demBuffer = <<>> THEN DefaultBuffer ELSE d.demBuffer[1])
    ELSE DefaultBuffer

\* dem_bbox before the command is composed; <<>> stands for the ValueError
DemBBox(which, d) ==
    IF d.demSNWE = <<>>
    THEN (IF d.boundingBox # <<>>
          THEN BufferedBox(d.boundingBox, DemBuff(which, d))
          ELSE <<>>)
    ELSE d.demSNWE

\* the command line of dem_gsi.py
GsiCmd(box) ==
    <<100,101,109,95,103,115,105,46,112,121,32,45,45,98,98,111,120,32>> \o JoinSp([i \in 1..4 |-> FloatStr(box[i])])

\* the command line of dem.py; suffix is demSource.split('srtm')[1]
SrtmCmd(which, d, box, suffix) ==
    <<100,101,109,46,112,121,32,45,45,97,99,116,105,111,110,32,115,116,105,116,99,104,32,45,45,98,98,111,120,32>>
        \o JoinSp(<<IntStr(FloorInt(box[1])), IntStr(CeilInt(box[2])),
                    IntStr(FloorInt(box[3])), IntStr(CeilInt(box[4]))>>)
        \o <<32,45,45,114,101,112,111,114,116,32,45,45,115,111,117,114,99,101,32>> \o suffix
        \o <<32,45,45,99,111,114,114,101,99,116,32,45,45,102,105,108,108,105,110,103,32,45,45,102,105,108,108,105,110,103,95,118,97,108,117,101,32>> \o d.demFillValue
        \o (IF which = "utils" /\ d.demUrl # <<>> THEN <<32,45,117,32>> \o d.demUrl[1] ELSE <<>>)

\* dem_file: the raster of dem_gsi.py, the pattern of the rasters of dem.py
DemFile(which, d) ==
    Path(DemDir(which, d),
         IF d.demSource = GsiSource THEN GsiRaster ELSE <<100,101,109,76,97,116,42,46,100,101,109,46,119,103,115,56,52>>)

\* dem_file.replace('.wgs84', '') followed by fext
GeoidFile(dem_file, fext) ==
    Path(dem_file.dir, StrReplace(dem_file.name, Wgs84Ext, <<>>) \o fext)

GeoidExts == {<<>>, XmlExt, VrtExt}

\* the files the DEM program may leave in the working directory: the raster
\* and the geoid-referenced files next to it
ProviderOutputs(d, dir) ==
    LET raster == IF d.demSource = GsiSource THEN GsiRaster ELSE SrtmRaster
    IN  {Path(dir, raster)} \cup {GeoidFile(Path(dir, raster), x) : x \in GeoidExts}

\* "Error in DEM generation."
DemErrorStr == <<69,114,114,111,114,32,105,110,32,68,69,77,32,103,101,110,101,114,97,116,105,111,110,46>>

\* the input DEM file exists, the chdir done before the check
PrepDemInputExists_AfterChdir ==
    /\ UNCHANGED <<stackVars, scaleVars, resolveVars, mainVars, shelveVars>>
    /\ demPc = "enter"
    /\ InputDemExists(demDict, demFs)
    /\ demDirOrig' = demCwd
    /\ demDirs' = demDirs \cup {DemDir(demImpl, demDict)}
    /\ demCwd' = DemDir(demImpl, demDict)
    /\ demPc' = "done"
    /\ demOutcome' = "returned"
    /\ UNCHANGED <<demImpl, demDict, demArgs, demFs, dem_bbox, cmd, demGen,
                   demCall, demFirst, demErr>>

\* the input DEM file exists: return iDict
PrepDemInputExists ==
    /\ UNCHANGED <<stackVars, scaleVars, resolveVars, mainVars, shelveVars>>
    /\ demPc = "enter"
    /\ InputDemExists(demDict, demFs)
    /\ demDirOrig' = demCwd
    /\ demDirs' = demDirs \cup {DemDir(demImpl, demDict)}
    /\ demPc' = "done"
    /\ demOutcome' = "returned"
    /\ UNCHANGED <<demImpl, demDict, demArgs, demFs, demCwd, dem_bbox, cmd, demGen,
                   demCall, demFirst, demErr>>

\* a DEM file exists in the DEM directory: adopt the first of the glob
PrepDemUseExisting ==
    /\ UNCHANGED <<stackVars, scaleVars, resolveVars, mainVars, shelveVars>>
    /\ demPc = "enter"
    /\ ~InputDemExists(demDict, demFs)
    /\ demDirOrig' = demCwd
    /\ demDirs' = demDirs \cup {DemDir(demImpl, demDict)}
    /\ \E first \in ExistingDems(demImpl, demDict, demFs) :
         demDict' = [demDict EXCEPT !.demFile = <<first>>]
    /\ demPc' = "done"
    /\ demOutcome' = "returned"
    /\ UNCHANGED <<demImpl, demArgs, demFs, demCwd, dem_bbox, cmd, demGen,
                   demCall, demFirst, demErr>>

\* no DEM file, neither demSNWE nor boundingBox: ValueError before the chdir
PrepDemNoBox ==
    /\ UNCHANGED <<stackVars, scaleVars, resolveVars, mainVars, shelveVars>>
    /\ demPc = "enter"
    /\ ~InputDemExists(demDict, demFs)
    /\ ExistingDems(demImpl, demDict, demFs) = {}
    /\ DemBBox(demImpl, demDict) = <<>>
    /\ demDirOrig' = demCwd
    /\ demDirs' = demDirs \cup {DemDir(demImpl, demDict)}
    /\ demPc' = "done"
    /\ demOutcome' = "ValueError"
    /\ UNCHANGED <<demImpl, demDict, demArgs, demFs, demCwd, dem_bbox, cmd, demGen,
                   demCall, demFirst, demErr>>

\* no DEM file: the box, the chdir to the DEM directory, the command line;
\* demSource.split('srtm')[1] raises IndexError for a source without 'srtm'
PrepDemCompose ==
    /\ UNCHANGED <<stackVars, scaleVars, resolveVars, mainVars, shelveVars>>
    /\ demPc = "enter"
    /\ ~InputDemExists(demDict, demFs)
    /\ ExistingDems(demImpl, demDict, demFs) = {}
    /\ DemBBox(demImpl, demDict) # <<>>
    /\ demDirOrig' = demCwd
    /\ demDirs' = demDirs \cup {DemDir(demImpl, demDict)}
    /\ dem_bbox' = DemBBox(demImpl, demDict)
    /\ demCwd' = DemDir(demImpl, demDict)
    /\ LET suffix == SplitSecond(demDict.demSource, SrtmStr)
       IN  IF demDict.demSource = GsiSource
           THEN /\ cmd' = GsiCmd(dem_bbox')
                /\ demPc' = "run"
                /\ UNCHANGED demOutcome
           ELSE IF suffix = <<>>
           THEN /\ demPc' = "done"
                /\ demOutcome' = "IndexError"
                /\ UNCHANGED cmd
           ELSE /\ cmd' = SrtmCmd(demImpl, demDict, dem_bbox', suffix[1])
                /\ demPc' = "run"
                /\ UNCHANGED demOutcome
    /\ UNCHANGED <<demImpl, demDict, demArgs, demFs, demGen, demCall, demFirst, demErr>>

\* the command exits with a non-zero status
PrepDemFail ==
    /\ UNCHANGED <<stackVars, scaleVars, resolveVars, mainVars, shelveVars>>
    /\ demPc = "run"
    /\ \E status \in ExitCodes \ {0} :
         /\ demGen' = demGen + 1
         /\ demPc' = "done"
         /\ demOutcome' = "RuntimeError"
         /\ demErr' = DemErrorStr
    /\ UNCHANGED <<demImpl, demDict, demArgs, demFs, demDirs, demCwd, demDirOrig,
                   dem_bbox, cmd, demCall, demFirst>>

\* the command exits with status 0 having written the files of outputs, the
\* name of the raster stored being the pattern dem_file
PrepDemAdopt_StorePattern ==
    /\ UNCHANGED <<stackVars, scaleVars, resolveVars, mainVars, shelveVars>>
    /\ demPc = "run"
    /\ \E outputs \in SUBSET ProviderOutputs(demDict, demCwd) :
         LET dem_file == DemFile(demImpl, demDict)
             written == demFs \cup outputs
             cleaned == written \ {GeoidFile(dem_file, x) : x \in GeoidExts}
             dem_files == Glob(cleaned, dem_file.dir, dem_file.name)
         IN  /\ demGen' = demGen + 1
             /\ demFs' = cleaned
             /\ demPc' = "done"
             /\ IF dem_files # {}
                THEN /\ demDict' = [demDict EXCEPT !.demFile = <<dem_file>>]
                     /\ demCwd' = demDirOrig
                     /\ demOutcome' = "returned"
                ELSE /\ demOutcome' = "FileNotFoundError"
                     /\ UNCHANGED <<demDict, demCwd>>
    /\ UNCHANGED <<demImpl, demArgs, demDirs, demDirOrig, dem_bbox, cmd, demCall,
                   demFirst, demErr>>

\* the command exits with status 0 having written the files of outputs: the
\* removal of the geoid files, the glob of dem_file, the chdir back
PrepDemAdopt ==
    /\ UNCHANGED <<stackVars, scaleVars, resolveVars, mainVars, shelveVars>>
    /\ demPc = "run"
    /\ \E outputs \in SUBSET ProviderOutputs(demDict, demCwd) :
         LET dem_file == DemFile(demImpl, demDict)
             written == demFs \cup outputs
             cleaned == written \ {GeoidFile(dem_file, x) : x \in GeoidExts}
             dem_files == Glob(cleaned, dem_file.dir, dem_file.name)
         IN  /\ demGen' = demGen + 1
             /\ demFs' = cleaned
             /\ demPc' = "done"
             /\ IF dem_files # {}
                THEN /\ \E first \in dem_files :
                          demDict' = [demDict EXCEPT !.demFile = <<first>>]
                     /\ demCwd' = demDirOrig
                     /\ demOutcome' = "returned"
                ELSE /\ demOutcome' = "FileNotFoundError"
                     /\ UNCHANGED <<demDict, demCwd>>
    /\ UNCHANGED <<demImpl, demArgs, demDirs, demDirOrig, dem_bbox, cmd, demCall,
                   demFirst, demErr>>

\* the caller calls again with the configuration returned
PrepDemAgain ==
    /\ UNCHANGED <<stackVars, scaleVars, resolveVars, mainVars, shelveVars>>
    /\ demPc = "done"
    /\ demOutcome = "returned"
    /\ demCall < MaxCalls
    /\ demCall' = demCall + 1
    /\ demFirst' = (IF demCall = 1 THEN demDict.demFile ELSE demFirst)
    /\ demPc' = "enter"
    /\ demOutcome' = "none"
    /\ demGen' = 0
    /\ dem_bbox' = <<>>
    /\ cmd' = <<>>
    /\ UNCHANGED <<demImpl, demDict, demArgs, demFs, demDirs, demCwd, demDirOrig,
                   demErr>>

\* the files on disk at the first call
DemFileCandidates ==
    {Path("DEM", GsiRaster), Path("DEM", SrtmRaster), Path("ext", UserRaster),
     Path("DEM", <<103,115,105,49,48,109,46,100,101,109>>)}

OptBoxes == { <<>>, <<60, 62, 258, 260>>, <<61, 62, -237, -234>> }

\* the state at the first call of prep_dem
DemEntry ==
    /\ demImpl \in {"utils", "script"}
    /\ demDict \in [demFile : {<<>>, <<Path("ext", UserRaster)>>, <<Path("DEM", GsiRaster)>>},
                    demSNWE : {<<>>, <<54, 68, 252, 266>>},
                    boundingBox : OptBoxes,
                    demBuffer : {<<>>} \cup {<<b>> : b \in 0..MaxBuffer},
                    demSource : DemSources,
                    demFillValue : {DemFillValue},
                    demUrl : {<<>>, <<DemUrl>>}]
    /\ (demImpl = "script" => demDict.demUrl = <<>>)
    /\ demFs \in {F \in SUBSET DemFileCandidates : Cardinality(F) <= MaxDemFiles}
    /\ demArgs = [iDict |-> demDict, fs |-> demFs]
    /\ demDirs = {f.dir : f \in demFs}
    /\ demCwd = "proj"
    /\ demDirOrig = "proj"
    /\ dem_bbox = <<>>
    /\ cmd = <<>>
    /\ demGen = 0
    /\ demCall = 1
    /\ demFirst = <<>>
    /\ demPc = "enter"
    /\ demOutcome = "none"
    /\ demErr = <<>>

\* prep_dem is not running
DemIdle ==
    /\ demImpl = "utils"
    /\ demDict = [demFile |-> <<>>, demSNWE |-> <<>>, boundingBox |-> <<>>,
                  demBuffer |-> <<>>, demSource |-> GsiSource,
                  demFillValue |-> DemFillValue, demUrl |-> <<>>]
    /\ demFs = {}
    /\ demArgs = [iDict |-> demDict, fs |-> demFs]
    /\ demDirs = {}
    /\ demCwd = "proj"
    /\ demDirOrig = "proj"
    /\ dem_bbox = <<>>
    /\ cmd = <<>>
    /\ demGen = 0
    /\ demCall = 0
    /\ demFirst = <<>>
    /\ demPc = "idle"
    /\ demOutcome = "none"
    /\ demErr = <<>>

NextDem ==
    \/ PrepDemInputExists
    \/ PrepDemUseExisting
    \/ PrepDemNoBox
    \/ PrepDemCompose
    \/ PrepDemFail
    \/ PrepDemAdopt
    \/ PrepDemAgain

-----------------------------------------------------------------------------
(* The command line of run_isce_stack.py: cmd_line_parse, read_inps2dict, main *)

TopsStackStr == <<116,111,112,115,83,116,97,99,107>>
StripmapStackStr == <<115,116,114,105,112,109,97,112,83,116,97,99,107>>
ProcessorKey == "isce.processor"

\* the template file named on the command line: an empty name or t.txt
TemplateNames == { <<>>, <<116,46,116,120,116>> }

\* the values of isce.processor in a template
ProcessorValues ==
    {StrV(AutoStr), StrV(TopsStackStr), StrV(StripmapStackStr), StrV(<<84,111,112,115,83,116,97,99,107>>),
     StrV(NoneStr)}

\* AUTO_DICT of run_isce_stack.py, the key the check reads
MainAutoDict == [k \in {ProcessorKey} |-> StrV(TopsStackStr)]

\* the sensors project_name2sensor_name gives
SensorNames == {"Alos", "Alos2", "Sen"}

\* the arguments of the command line: templateFile is <<>> when absent,
\* <<name>> when given; startStep and endStep are <<>> when absent
MainArgvs ==
    [templateFile : {<<>>} \cup {<<t>> : t \in TemplateNames},
     runStack : BOOLEAN,
     reset : BOOLEAN,
     startStep : {<<>>} \cup {<<k>> : k \in (0 - MaxMainStep)..MaxMainStep},
     endStep : {<<>>} \cup {<<k>> : k \in (0 - MaxMainStep)..MaxMainStep}]

\* iDict['processor'] not in ['topsStack', 'stripmapStack'], the check dropped
ProcessorSupported_Any(v) == TRUE

\* iDict['processor'] in ['topsStack', 'stripmapStack']
ProcessorSupported(v) == v.kind = "str" /\ v.s \in {TopsStackStr, StripmapStackStr}

\* inps.startStep or inps.endStep
StepGiven(start, end) == Truthy(start) \/ Truthy(end)

\* the template after fill_and_translate_template_auto_value
MainResolved == FillAndTranslate(template, MainAutoDict)

\* parse_args: the positional templateFile is missing, argparse exits with 2
CmdLineParseUsage ==
    /\ UNCHANGED <<stackVars, scaleVars, resolveVars, demVars, shelveVars>>
    /\ mainPc = "parse"
    /\ argv.templateFile = <<>>
    /\ mainPc' = "done"
    /\ mainErr' = "SystemExit"
    /\ exitCode' = <<2>>
    /\ UNCHANGED <<argv, template, sensorName, inps, mDict, calls, printed>>

\* cmd_line_parse with an empty templateFile and no --reset: SystemExit(msg)
CmdLineParseRequired ==
    /\ UNCHANGED <<stackVars, scaleVars, resolveVars, demVars, shelveVars>>
    /\ mainPc = "parse"
    /\ argv.templateFile # <<>>
    /\ ~argv.reset /\ argv.templateFile[1] = <<>>
    /\ mainPc' = "done"
    /\ mainErr' = "SystemExit"
    /\ exitCode' = <<1>>
    /\ UNCHANGED <<argv, template, sensorName, inps, mDict, calls, printed>>

\* cmd_line_parse returns inps
CmdLineParse ==
    /\ UNCHANGED <<stackVars, scaleVars, resolveVars, demVars, shelveVars>>
    /\ mainPc = "parse"
    /\ argv.templateFile # <<>>
    /\ ~(~argv.reset /\ argv.templateFile[1] = <<>>)
    /\ inps' = <<[templateFile |-> argv.templateFile[1],
                  runStack |-> argv.runStack \/ StepGiven(argv.startStep, argv.endStep),
                  reset |-> argv.reset,
                  startStep |-> argv.startStep,
                  endStep |-> argv.endStep]>>
    /\ mainPc' = "read"
    /\ UNCHANGED <<argv, template, sensorName, mDict, calls, printed, mainErr, exitCode>>

\* read_inps2dict: the template file of an empty name cannot be read
ReadTemplateMissing ==
    /\ UNCHANGED <<stackVars, scaleVars, resolveVars, demVars, shelveVars>>
    /\ mainPc = "read"
    /\ inps[1].templateFile = <<>>
    /\ calls' = Append(calls, "read_inps2dict")
    /\ mainPc' = "done"
    /\ mainErr' = "FileNotFoundError"
    /\ exitCode' = <<1>>
    /\ UNCHANGED <<argv, template, sensorName, inps, mDict, printed>>

\* read_inps2dict: the processor is not supported
ReadInps2dictInvalid ==
    /\ UNCHANGED <<stackVars, scaleVars, resolveVars, demVars, shelveVars>>
    /\ mainPc = "read"
    /\ inps[1].templateFile # <<>>
    /\ ~ProcessorSupported(MainResolved[ProcessorKey])
    /\ calls' = Append(calls, "read_inps2dict")
    /\ mainPc' = "done"
    /\ mainErr' = "ValueError"
    /\ exitCode' = <<1>>
    /\ UNCHANGED <<argv, template, sensorName, inps, mDict, printed>>

\* read_inps2dict returns iDict
ReadInps2dict ==
    /\ UNCHANGED <<stackVars, scaleVars, resolveVars, demVars, shelveVars>>
    /\ mainPc = "read"
    /\ inps[1].templateFile # <<>>
    /\ ProcessorSupported(MainResolved[ProcessorKey])
    /\ calls' = Append(calls, "read_inps2dict")
    /\ mDict' = <<[processor |-> MainResolved[ProcessorKey], sensor |-> sensorName]>>
    /\ mainPc' = "dispatch"
    /\ UNCHANGED <<argv, template, sensorName, inps, printed, mainErr, exitCode>>

\* --reset: reset_process_directory prints the block and main returns
MainReset ==
    /\ UNCHANGED <<stackVars, scaleVars, resolveVars, demVars, shelveVars>>
    /\ mainPc = "dispatch"
    /\ inps[1].reset
    /\ calls' = Append(calls, "reset_process_directory")
    /\ printed' = TRUE
    /\ mainPc' = "done"
    /\ exitCode' = <<0>>
    /\ UNCHANGED <<argv, template, sensorName, inps, mDict, mainErr>>

\* the call of a function of the workflow: returns (ok) or raises
MainCall(name, ok, next) ==
    /\ calls' = Append(calls, name)
    /\ IF ok
       THEN /\ mainPc' = next
            /\ exitCode' = (IF next = "done" THEN <<0>> ELSE exitCode)
            /\ UNCHANGED mainErr
       ELSE /\ mainPc' = "done"
            /\ mainErr' = name
            /\ exitCode' = <<1>>

\* --start: run_stack and return
MainRunFromStart ==
    /\ UNCHANGED <<stackVars, scaleVars, resolveVars, demVars, shelveVars>>
    /\ mainPc = "dispatch"
    /\ ~inps[1].reset
    /\ Truthy(inps[1].startStep)
    /\ \E ok \in BOOLEAN : MainCall("run_stack", ok, "done")
    /\ UNCHANGED <<argv, template, sensorName, inps, mDict, printed>>

\* prepare_dem
MainPrepareDem ==
    /\ UNCHANGED <<stackVars, scaleVars, resolveVars, demVars, shelveVars>>
    /\ mainPc = "dispatch"
    /\ ~inps[1].reset
    /\ ~Truthy(inps[1].startStep)
    /\ \E ok \in BOOLEAN : MainCall("prepare_dem", ok, "raw")
    /\ UNCHANGED <<argv, template, sensorName, inps, mDict, printed>>

\* stripmapStack: prepare_ALOS or prepare_ALOS2
MainPrepareRaw ==
    /\ UNCHANGED <<stackVars, scaleVars, resolveVars, demVars, shelveVars>>
    /\ mainPc = "raw"
    /\ mDict[1].processor.s = StripmapStackStr
    /\ mDict[1].sensor \in {"Alos", "Alos2"}
    /\ \E ok \in BOOLEAN :
         MainCall(IF mDict[1].sensor = "Alos" THEN "prepare_ALOS" ELSE "prepare_ALOS2",
                  ok, "plan")
    /\ UNCHANGED <<argv, template, sensorName, inps, mDict, printed>>

\* stripmapStack with another sensor: ValueError
MainUnsupportedSensor ==
    /\ UNCHANGED <<stackVars, scaleVars, resolveVars, demVars, shelveVars>>
    /\ mainPc = "raw"
    /\ mDict[1].processor.s = StripmapStackStr
    /\ mDict[1].sensor \notin {"Alos", "Alos2"}
    /\ mainPc' = "done"
    /\ mainErr' = "ValueError"
    /\ exitCode' = <<1>>
    /\ UNCHANGED <<argv, template, sensorName, inps, mDict, calls, printed>>

\* prepare_stack
MainPrepareStack ==
    /\ UNCHANGED <<stackVars, scaleVars, resolveVars, demVars, shelveVars>>
    /\ \/ mainPc = "plan"
       \/ mainPc = "raw" /\ mDict[1].processor.s # StripmapStackStr
    /\ \E ok \in BOOLEAN : MainCall("prepare_stack", ok, "run")
    /\ UNCHANGED <<argv, template, sensorName, inps, mDict, printed>>

\* --run: run_stack
MainRunStack ==
    /\ UNCHANGED <<stackVars, scaleVars, resolveVars, demVars, shelveVars>>
    /\ mainPc = "run"
    /\ inps[1].runStack
    /\ \E ok \in BOOLEAN : MainCall("run_stack", ok, "done")
    /\ UNCHANGED <<argv, template, sensorName, inps, mDict, printed>>

\* no --run: main returns
MainReturn ==
    /\ UNCHANGED <<stackVars, scaleVars, resolveVars, demVars, shelveVars>>
    /\ mainPc = "run"
    /\ ~inps[1].runStack
    /\ mainPc' = "done"
    /\ exitCode' = <<0>>
    /\ UNCHANGED <<argv, template, sensorName, inps, mDict, calls, printed, mainErr>>

\* the state at the start of main
MainEntry ==
    /\ argv \in MainArgvs
    /\ template \in Mappings({ProcessorKey}, ProcessorValues)
    /\ sensorName \in SensorNames
    /\ inps = <<>>
    /\ mDict = <<>>
    /\ calls = <<>>
    /\ printed = FALSE
    /\ mainPc = "parse"
    /\ mainErr = "none"
    /\ exitCode = <<>>

\* main is not running
MainIdle ==
    /\ argv = [templateFile |-> <<>>, runStack |-> FALSE, reset |-> FALSE,
               startStep |-> <<>>, endStep |-> <<>>]
    /\ template = [k \in {} |-> NoneV]
    /\ sensorName = "Sen"
    /\ inps = <<>>
    /\ mDict = <<>>
    /\ calls = <<>>
    /\ printed = FALSE
    /\ mainPc = "idle"
    /\ mainErr = "none"
    /\ exitCode = <<>>

NextMain ==
    \/ CmdLineParseUsage
    \/ CmdLineParseRequired
    \/ CmdLineParse
    \/ ReadTemplateMissing
    \/ ReadInps2dictInvalid
    \/ ReadInps2dict
    \/ MainReset
    \/ MainRunFromStart
    \/ MainPrepareDem
    \/ MainPrepareRaw
    \/ MainUnsupportedSensor
    \/ MainPrepareStack
    \/ MainRunStack
    \/ MainReturn

-----------------------------------------------------------------------------
(* copy_reference_shelve of utils.py *)

\* shelve_files
ShelveFiles == << <<100,97,116,97,46,98,97,107>>, <<100,97,116,97,46,100,97,116>>, <<100,97,116,97,46,100,105,114>> >>

RefDateKey == "referenceDate"

\* the acquisition dates that may have a folder under SLC/
DateUniverse == { <<50,48,49,53,48,49,48,49>>, <<50,48,49,53,48,49,49,51>>, <<50,48,49,52,49,50,50,48>> }

\* the values of iDict['referenceDate']: None ('auto' and 'none' of the
\* template), False ('no' of the template) or a date
RefDateValues == {NoneV, BoolV(FALSE)} \cup {StrV(d) : d \in DateUniverse}

\* iDict.get('referenceDate', default)
RefDate(d, default) == IF RefDateKey \in DOMAIN d THEN d[RefDateKey] ELSE default

\* the referenceShelve directory exists: return
CopyShelveExists ==
    /\ UNCHANGED <<stackVars, scaleVars, resolveVars, demVars, mainVars>>
    /\ shPc = "enter"
    /\ shelveIsDir
    /\ shPc' = "done"
    /\ shOutcome' = "returned"
    /\ UNCHANGED <<shDict, slcDates, slcComplete, shelveIsDir, shEntryIsDir, shCopied>>

\* the directory is made; SLC/ has no folder: date_list[0] raises IndexError
CopyShelveNoDates ==
    /\ UNCHANGED <<stackVars, scaleVars, resolveVars, demVars, mainVars>>
    /\ shPc = "enter"
    /\ ~shelveIsDir
    /\ slcDates = {}
    /\ shelveIsDir' = TRUE
    /\ shPc' = "done"
    /\ shOutcome' = "IndexError"
    /\ UNCHANGED <<shDict, slcDates, slcComplete, shEntryIsDir, shCopied>>

\* the directory is made, empty, and the three files are copied from
\* SLC/m_date; copy2 raises FileNotFoundError on the first file it misses
CopyShelveCopy ==
    /\ UNCHANGED <<stackVars, scaleVars, resolveVars, demVars, mainVars>>
    /\ shPc = "enter"
    /\ ~shelveIsDir
    /\ slcDates # {}
    /\ shelveIsDir' = TRUE
    /\ LET date_list == Sorted(slcDates)
           m_date == RefDate(shDict, StrV(date_list[1]))
           slc_dir == PyStr(m_date)
       IN  IF slc_dir \in slcComplete
           THEN /\ shCopied' = [i \in 1..Len(ShelveFiles) |->
                                    [dir |-> slc_dir, name |-> ShelveFiles[i]]]
                /\ shOutcome' = "returned"
           ELSE /\ shOutcome' = "FileNotFoundError"
                /\ UNCHANGED shCopied
    /\ shPc' = "done"
    /\ UNCHANGED <<shDict, slcDates, slcComplete, shEntryIsDir>>

\* the state at the call of copy_reference_shelve: the folders of SLC/, those
\* of them that hold the three shelve files, the referenceShelve directory
ShelveEntry ==
    /\ shDict \in Mappings({RefDateKey}, RefDateValues)
    /\ slcDates \in {D \in SUBSET DateUniverse : Cardinality(D) <= MaxDates}
    /\ slcComplete \in SUBSET slcDates
    /\ shelveIsDir \in BOOLEAN
    /\ shEntryIsDir = shelveIsDir
    /\ shCopied = <<>>
    /\ shPc = "enter"
    /\ shOutcome = "none"

\* copy_reference_shelve is not running
ShelveIdle ==
    /\ shDict = [k \in {} |-> NoneV]
    /\ slcDates = {}
    /\ slcComplete = {}
    /\ shelveIsDir = FALSE
    /\ shEntryIsDir = FALSE
    /\ shCopied = <<>>
    /\ shPc = "idle"
    /\ shOutcome = "none"

NextShelve ==
    \/ CopyShelveExists
    \/ CopyShelveNoDates
    \/ CopyShelveCopy

-----------------------------------------------------------------------------
(* Specifications *)

\* run_stack over every range and directory content, default budget
InitStack ==
    /\ StackEntry({"utils", "script"}, {<<47,112>>}, OptSteps, {MaxBudget}, {<<>>})
    /\ ScaleIdle
    /\ ResolveIdle
    /\ DemIdle
    /\ MainIdle
    /\ ShelveIdle

SpecStack == InitStack /\ [][NextStack]_vars

\* run_stack over every budget, thread count and project path, the range
\* left unspecified or given as MaxStep
InitDriver ==
    /\ StackEntry({"utils", "script"}, ProjPaths, {<<>>, <<MaxStep>>}, 1..MaxBudget,
                  {<<>>} \cup {<<t>> : t \in 1..MaxOmp})
    /\ ScaleIdle
    /\ ResolveIdle
    /\ DemIdle
    /\ MainIdle
    /\ ShelveIdle

SpecDriver == InitDriver /\ [][NextStack]_vars

\* the two process counts over every budget and thread count
InitScale == StackIdle /\ ScaleEntry /\ ResolveIdle /\ DemIdle /\ MainIdle /\ ShelveIdle

SpecScale == InitScale /\ [][NextScale]_vars

\* the resolver over every raw mapping and default table
InitResolve == StackIdle /\ ScaleIdle /\ ResolveEntry /\ DemIdle /\ MainIdle /\ ShelveIdle

SpecResolve == InitResolve /\ [][NextResolve]_vars

\* the DEM preparation over every configuration and content of the disk,
\* called again after it returns
InitDem == StackIdle /\ ScaleIdle /\ ResolveIdle /\ DemEntry /\ MainIdle /\ ShelveIdle

SpecDem == InitDem /\ [][NextDem]_vars

\* main over every command line, template and sensor
InitMain == StackIdle /\ ScaleIdle /\ ResolveIdle /\ DemIdle /\ MainEntry /\ ShelveIdle

SpecMain == InitMain /\ [][NextMain]_vars

\* copy_reference_shelve over every referenceDate and content of SLC/
InitShelve ==
    StackIdle /\ ScaleIdle /\ ResolveIdle /\ DemIdle /\ MainIdle /\ ShelveEntry

SpecShelve == InitShelve /\ [][NextShelve]_vars

-----------------------------------------------------------------------------
(* Claims about run_stack *)

\* run_stack has passed its directory check and built the catalog
CatalogBuilt == pc = "loop" \/ (pc = "done" /\ outcome # "NotADirectoryError")

\* positions in the catalog of the stages run so far, in order of invocation
InvokedPos == [i \in 1..Len(invoked) |-> invoked[i].pos]

\* a stage script name: run_, one or two digits, an underscore, a suffix, no dot
IsStageScript(name) ==
    /\ MatchOneDigit(name) \/ MatchTwoDigit(name)
    /\ ~Contains(name, DotStr)

\* the number a script name embeds
PrefixNum(name) ==
    IF MatchTwoDigit(name) THEN (name[5] - 48) * 10 + (name[6] - 48) ELSE name[5] - 48

\* C1: the stage drivers are invoked in ascending catalog order, each at most
\* once, a stage only after every earlier invocation exited with status 0; a
\* RuntimeError names the stage invoked last, which exited non-zero, so that no
\* stage after the failed one is invoked.
C1_AscendingOnceStopAtFailure ==
    /\ \A i, j \in 1..Len(invoked) : i < j => invoked[i].pos < invoked[j].pos
    /\ \A i \in 1..(Len(invoked) - 1) : invoked[i].status = 0
    /\ outcome = "RuntimeError" =>
          /\ Len(invoked) > 0
          /\ invoked[Len(invoked)].status # 0
          /\ errFile = invoked[Len(invoked)].run_file

\* the caller gave both steps and they are inverted or out of 1..stageCount
RangeInvalid ==
    /\ args.startStep # <<>>
    /\ args.endStep # <<>>
    /\ \/ args.startStep[1] > args.endStep[1]
       \/ args.startStep[1] < 1
       \/ args.endStep[1] > Len(run_files)

\* C2: with a range that is inverted or out of bounds run_stack never runs a
\* stage and never returns normally.
C2_InvalidRangeRejected ==
    (CatalogBuilt /\ RangeInvalid) => (invoked = <<>> /\ outcome # "returned")

\* C3: an unspecified startStep resolves to 1 and an unspecified endStep to
\* the stage count; a run that returns normally has run exactly the stages at
\* positions startStep..endStep, and with both unspecified every stage of the
\* catalog exactly once.
C3_DefaultsAndExactRange ==
    CatalogBuilt =>
        /\ args.startStep = <<>> => iDict.startStep = <<1>>
        /\ args.endStep = <<>> => iDict.endStep = <<Len(run_files)>>
        /\ outcome = "returned" =>
              SeqRange(InvokedPos) = (iDict.startStep[1])..(iDict.endStep[1])
        /\ (outcome = "returned" /\ args.startStep = <<>> /\ args.endStep = <<>>) =>
              InvokedPos = [i \in 1..Len(run_files) |-> i]

\* C4: when configs or run_files is no directory, run_stack ends with
\* NotADirectoryError, and then the working directory is the one at entry, no
\* file of run_files was deleted and no stage was run.
C4_NoDirFailsFirst ==
    /\ (pc = "done" /\ ~(isdir["configs"] /\ isdir["run_files"])) =>
          outcome = "NotADirectoryError"
    /\ outcome = "NotADirectoryError" =>
          (cwd = "proj" /\ files = args.files /\ invoked = <<>>)

\* run_stack failed on a missing configs directory next to a run_files
\* directory that holds a job file
C4_Witness ==
    /\ outcome = "NotADirectoryError"
    /\ isdir["run_files"]
    /\ \E n \in files : MatchJob(n)

\* C5: the catalog holds exactly the stage scripts of run_files (one- or
\* two-digit prefix, no dot in the name), in ascending order of their numeric
\* prefix, and no stage runs after a stage with a larger prefix.
C5_CatalogCompleteAscending ==
    CatalogBuilt =>
        /\ SeqRange(run_files) = {FullPath(n) : n \in {m \in args.files : IsStageScript(m)}}
        /\ \A i, j \in 1..Len(run_files) :
              i < j => PrefixNum(Basename(run_files[i])) < PrefixNum(Basename(run_files[j]))
        /\ \A i, j \in 1..Len(invoked) :
              i < j => PrefixNum(Basename(invoked[i].run_file))
                          <= PrefixNum(Basename(invoked[j].run_file))

\* C6: the k-th entry of the catalog, k counted from 1, is the script whose
\* embedded numeric prefix is k.
C6_OrdinalIsPrefix ==
    CatalogBuilt =>
        \A k \in 1..Len(run_files) : PrefixNum(Basename(run_files[k])) = k

\* C8: for a stage whose name holds none of the keywords of PARALLEL_STEPS,
\* the process count handed to the driver is min(numProcess, lines of the script).
C8_NonHeavyBudgetClamped ==
    \A i \in 1..Len(invoked) :
        ~IsParallelStep(Basename(invoked[i].run_file)) =>
            invoked[i].p = Min(iDict.numProcess, invoked[i].num_line)

-----------------------------------------------------------------------------
(* Claims about the process counts *)

ScN == scIn.numProcess
ScT == NumThread(scIn.omp)
\* the stage is resource-heavy: its name holds a keyword of PARALLEL_STEPS
ScHeavy == IsParallelStep(Basename(scIn.run_file))
\* prep_stack derives the count: topsStack with numProcess4topo unset
ScDerived == scIn.processor = "topsStack" /\ scIn.numProcess4topo = <<>>

\* C7: for a resource-heavy stage the count of run_stack is ceil(n/t), the
\* count prep_stack derives is floor(n/t); they are equal when t divides n and
\* otherwise the count of run_stack is larger by one.
C7_CeilAtRunFloorAtPlan ==
    /\ (ScHeavy /\ "run" \in scDone) =>
          (scRun[1] * ScT >= ScN /\ (scRun[1] - 1) * ScT < ScN)
    /\ (ScDerived /\ "plan" \in scDone) =>
          /\ scPlan # <<>>
          /\ scPlan[1] * ScT <= ScN /\ (scPlan[1] + 1) * ScT > ScN
    /\ (ScHeavy /\ ScDerived /\ scDone = {"run", "plan"}) =>
          scRun[1] = (IF ScN % ScT = 0 THEN scPlan[1] ELSE scPlan[1] + 1)

\* budget 9 with 4 threads: 3 at run time, 2 at plan time
C7_Witness ==
    /\ ScHeavy /\ ScDerived
    /\ ScN = 9 /\ ScT = 4
    /\ scDone = {"run", "plan"}
    /\ scRun = <<3>> /\ scPlan = <<2>>

-----------------------------------------------------------------------------
(* Claims about the resolver *)

\* C9: every key of the default table is a key of the mapping the resolver
\* returns, also a key whose raw value was 'auto'.
C9_DefaultKeysPresent ==
    rOutcome = "returned" => DOMAIN rAuto \subseteq DOMAIN rOut

\* the resolver returned and a key of the default table had the raw value 'auto'
C9_Witness ==
    /\ rOutcome = "returned"
    /\ \E k \in DOMAIN rAuto \cap DOMAIN rRaw :
          rRaw[k] = StrV(AutoStr) /\ rOut[k] = TranslateValue(rAuto[k])

\* C10: translating the special values of the mapping step 3 produced changes
\* no value of it.
C10_CoercionIdempotent ==
    rOutcome # "none" => TranslateSpecial(rCoerced) = rCoerced

\* step 3 turned a raw string into a boolean or None
C10_Witness ==
    /\ rOutcome # "none"
    /\ \E k \in DOMAIN rRaw \cap DOMAIN rCoerced :
          rRaw[k] # StrV(AutoStr) /\ rCoerced[k].kind \in {"bool", "none"}

-----------------------------------------------------------------------------
(* Claims about the failure of a stage and the classification of stages *)

\* the text of msg outside the occurrences of name holds the decimal of status
CarriesStatus(msg, name, status) ==
    Contains(StrReplace(msg, name, <<>>), Decimal(status))

\* C16: when the driver of a stage exits with a non-zero status, run_sh_file
\* raises an error that carries the name of the stage and the exit status,
\* and the stage is not run again.
C16_StageErrorNameAndStatus ==
    outcome = "RuntimeError" =>
        LET last == invoked[Len(invoked)]
        IN  /\ last.status # 0
            /\ \A i \in 1..(Len(invoked) - 1) : invoked[i].status = 0
            /\ Contains(errMsg, Basename(last.run_file))
            /\ CarriesStatus(errMsg, last.run_file, last.status)

\* C20: a stage is run as resource-heavy, its process count divided by the
\* thread count, exactly when its name holds a keyword of PARALLEL_STEPS,
\* whatever the directory that holds the stage scripts.
C20_HeavyByNameOnly ==
    \A i \in 1..Len(invoked) :
        invoked[i].num_proc =
            IF IsParallelStep(Basename(invoked[i].run_file))
            THEN CeilDiv(iDict.numProcess, NumThread(ompThreads))
            ELSE iDict.numProcess

-----------------------------------------------------------------------------
(* Claims about the DEM preparation *)

\* the configured demFile exists on disk at the first call
InputDemOnDisk ==
    demArgs.iDict.demFile # <<>> /\ demArgs.iDict.demFile[1] \in demArgs.fs

\* C11: with demSNWE unset, boundingBox S,N,W,E and demBuffer b >= 0 (3 when
\* not given), the box before the snapping of the provider is
\* S-b, N+b, W-b, E+b, for b = 0 too.
C11_BoxIsBufferedBBox ==
    (dem_bbox # <<>> /\ demDict.demSNWE = <<>> /\ demDict.boundingBox # <<>>) =>
        LET b == IF demDict.demBuffer = <<>> THEN 3 ELSE demDict.demBuffer[1]
            box == demDict.boundingBox
        IN  dem_bbox = <<box[1] - 2 * b, box[2] + 2 * b, box[3] - 2 * b, box[4] + 2 * b>>

\* C12: when the configured demFile exists, the DEM preparation returns the
\* configuration with every field unchanged, runs no DEM program and leaves
\* the working directory where it was.
C12_ExistingInputUntouched ==
    (InputDemOnDisk /\ demPc \in {"run", "done"}) =>
        /\ demPc = "done"
        /\ demOutcome = "returned"
        /\ demDict = demArgs.iDict
        /\ demGen = 0
        /\ cmd = <<>>
        /\ demCwd = "proj"

C12_Witness ==
    InputDemOnDisk /\ demCall = 1 /\ demPc = "done" /\ demOutcome = "returned"

\* C13: after a call that returned, a second call with the configuration
\* returned, on the disk as the first call left it, runs the DEM program zero
\* times and returns the same demFile.
C13_SecondCallNoGeneration ==
    demCall >= 2 =>
        /\ demGen = 0
        /\ demPc # "run"
        /\ cmd = <<>>
        /\ (demPc = "done" => demOutcome = "returned" /\ demDict.demFile = demFirst)

C13_Witness ==
    demCall = 2 /\ demPc = "done" /\ demFs # demArgs.fs /\ demFirst # demArgs.iDict.demFile

\* C14: whenever the DEM preparation returns, by any of its three branches,
\* demFile is set and names a file on disk; in every other case it ends with
\* an error.
C14_ReturnedDemOnDisk ==
    demPc = "done" =>
        IF demOutcome = "returned"
        THEN demDict.demFile # <<>> /\ demDict.demFile[1] \in demFs
        ELSE demOutcome \in {"ValueError", "IndexError", "RuntimeError", "FileNotFoundError"}

C14_Witness ==
    demPc = "done" /\ demOutcome = "returned" /\ demGen = 1 /\ ~InputDemOnDisk

\* C15: when the DEM program exits with a non-zero status, the DEM
\* preparation fails with an error that carries the command line that was run.
C15_DemErrorCarriesCommand ==
    demOutcome = "RuntimeError" => cmd # <<>> /\ Contains(demErr, cmd)

-----------------------------------------------------------------------------
(* Claims about the command line and main *)

\* the resolved processor is one of the two supported
ResolvedSupported ==
    MainResolved[ProcessorKey] \in {StrV(TopsStackStr), StrV(StripmapStackStr)}

\* the functions that prepare or run the stack
WorkCalls ==
    {"prepare_dem", "prepare_ALOS", "prepare_ALOS2", "prepare_stack", "run_stack"}

\* C17: run with --reset and no template, the program prints the reset block
\* and exits with status 0; a template is needed only without --reset.
C17_ResetWithoutTemplate ==
    (argv.reset /\ argv.templateFile = <<>> /\ mainPc = "done") =>
        printed /\ exitCode = <<0>>

\* C18: for every integer given to --start or --end, giving either implies
\* --run: runStack is set in the parsed options and main runs the stages.
C18_StepImpliesRun ==
    (~argv.reset /\ (argv.startStep # <<>> \/ argv.endStep # <<>>)) =>
        /\ (inps # <<>> => inps[1].runStack)
        /\ (mainPc = "done" /\ exitCode = <<0>> =>
               \E i \in 1..Len(calls) : calls[i] = "run_stack")

\* C19: read_inps2dict fails with a ValueError whenever the resolved processor
\* is neither topsStack nor stripmapStack, so that every configuration it
\* returns has one of the two, and it does so before the DEM is prepared, the
\* stack planned or a stage run.
C19_UnsupportedProcessorRejected ==
    /\ (mDict # <<>> =>
           mDict[1].processor \in {StrV(TopsStackStr), StrV(StripmapStackStr)})
    /\ (~ResolvedSupported /\ Len(calls) >= 1 /\ inps[1].templateFile # <<>> =>
           mainPc = "done" /\ mainErr = "ValueError" /\ calls = <<"read_inps2dict">>)
    /\ \A i \in 1..Len(calls) :
           calls[i] \in WorkCalls => i > 1 /\ calls[1] = "read_inps2dict" /\ mDict # <<>>

C19_Witness ==
    ~ResolvedSupported /\ mainErr = "ValueError" /\ calls = <<"read_inps2dict">>

\* C21: whenever the DEM preparation ends after it ran the DEM program in the
\* DEM directory, by a return or by a failure (non-zero exit, raster not
\* found), the working directory is the one at entry.
C21_DemCwdRestoredOnEveryExit ==
    (demPc = "done" /\ demGen >= 1) => demCwd = demDirOrig

\* the geoid files of the provider in the DEM directory: the raster named
\* without .wgs84, and its .xml and .vrt
ProviderSidecars ==
    LET raster == IF demDict.demSource = GsiSource THEN GsiRaster ELSE SrtmRaster
    IN  {Path(DemDir(demImpl, demDict), StrReplace(raster, Wgs84Ext, <<>>) \o x) :
            x \in GeoidExts}

\* C22: after a DEM program of either provider has exited with status 0, the
\* geoid raster and its .xml and .vrt are no longer in the DEM directory when
\* the raster is looked for and adopted.
C22_SidecarsRemoved ==
    (demPc = "done" /\ demGen >= 1 /\ demOutcome \in {"returned", "FileNotFoundError"}) =>
        ProviderSidecars \cap demFs = {}

-----------------------------------------------------------------------------
(* Claims about the working directory of run_stack and the process counts *)

\* C23: whenever run_stack ends after it entered the run_files directory,
\* every selected stage having succeeded or a stage having failed, the
\* working directory is the one at entry.
C23_StackCwdRestoredOnEveryExit ==
    (pc = "done" /\ outcome \in {"returned", "RuntimeError"}) => cwd = "proj"

\* C24: for every budget numProcess >= 1 and thread count >= 1, the count
\* run_stack derives for a stage and the count prep_stack derives for
\* --num_proc4topo are both at least 1.
C24_DerivedCountsPositive ==
    /\ ("run" \in scDone => scRun[1] >= 1)
    /\ (ScDerived /\ "plan" \in scDone => scPlan # <<>> /\ scPlan[1] >= 1)

-----------------------------------------------------------------------------
(* Claims about copy_reference_shelve *)

\* the folder the shelve files were copied from: <<>> when nothing was copied
CopiedFrom == IF shCopied = <<>> THEN <<>> ELSE <<shCopied[1].dir>>

\* C25: with the referenceShelve directory absent, a null referenceDate
\* copies the shelve files from the SLC folder of the first date in sorted
\* order and a date given copies them from the folder of that date; with the
\* directory present nothing is copied.
C25_ShelveFromReferenceDate ==
    shPc = "done" =>
        /\ (shEntryIsDir => shCopied = <<>> /\ shOutcome = "returned")
        /\ (~shEntryIsDir /\ slcDates # {} /\ RefDateKey \in DOMAIN shDict =>
              LET v == shDict[RefDateKey]
                  first == Sorted(slcDates)[1]
              IN  /\ (v = NoneV /\ first \in slcComplete =>
                         shOutcome = "returned" /\ CopiedFrom = <<first>>)
                  /\ (v.kind = "str" /\ v.s \in slcComplete =>
                         shOutcome = "returned" /\ CopiedFrom = <<v.s>>))


\* the preparation steps of main
PrepareCalls == {"prepare_dem", "prepare_ALOS", "prepare_ALOS2", "prepare_stack"}

\* C26: with --start and/or --end given, main runs only the selected stages of
\* the plan on disk: run_stack is called and neither prepare_dem nor
\* prepare_ALOS(2) nor prepare_stack is called before it, whichever of the two
\* options was given.
C26_RangeSkipsPreparation ==
    (~argv.reset /\ (argv.startStep # <<>> \/ argv.endStep # <<>>)) =>
        /\ \A i \in 1..Len(calls) : calls[i] \notin PrepareCalls
        /\ (mainPc = "done" /\ exitCode = <<0>> => calls = <<"read_inps2dict", "run_stack">>)

=============================================================================
